---- MODULE Spec2Model ----
(***************************************************************************)
(* Model of locomotive.py: the retry decorator, the Locomotive session     *)
(* lifecycle (__init__/__enter__/__exit__ under a with statement) and the  *)
(* check/click operations on a checkbox.                                   *)
(*                                                                         *)
(* A call of a decorated method is a frame on `stack`; one action is one   *)
(* execution of the decorated function's body followed by the wrapper's    *)
(* handling of its outcome (return, propagate, or sleep / test / decrement *)
(* and loop).  Time is an integer clock `now` read by time.time().         *)
(***************************************************************************)
EXTENDS Integers, Sequences, FiniteSets, TLC

VARIABLES
    now,          \* the wall clock, time.time()
    stack,        \* the active calls of retry wrappers, innermost last
    ret,          \* the outcome travelling from a finished call to its caller
    last,         \* history: the most recently finished wrapper call
    browser,      \* Locomotive._browser
    initial_url,  \* Locomotive._initial_url
    driver,       \* Locomotive._driver: 0 is None, else the id of a process
    running,      \* the driver processes that are alive
    launched,     \* history: how many driver processes this session started
    scope,        \* position of the with statement: "out", "in", "left"
    raised,       \* the exception that left the with statement, if one did
    present,      \* the page: the checkbox is in the document
    checked,      \* the page: the checkbox is selected
    clicks,       \* history: element clicks issued since the tracked check began
    pair,         \* history: progress of a check(t); check(t) sequence
    chain,        \* the methods called so far in one fluent call chain
    receiver,     \* what the last call of the chain returned
    sel,          \* the selector argument the script passes
    doc,          \* the document: its elements in document order
    queries,      \* history: find_elements_* calls made during the call
    asked,        \* history: the last query sent to the driver
    answer,       \* what the last undecorated call yielded
    windows,      \* the open windows in window_handles order
    current,      \* the handle of the driver's context, 0 once it is closed
    arg,          \* the text given to switch_to_window / close_window
    visited,      \* history: the handles the last attempt switched to
    field,        \* the page: the text of the validated element, or absent
    expected,     \* the text given to validate_text
    reads,        \* history: what each attempt of validate_text read
    message,      \* the message of the assertion error raised last
    waitop,       \* the polling wait in progress
    matched,      \* the page: what the wait looks for is there
    polls,        \* history: checks the wait made, counted up to MaxPolls
    found,        \* history: what the wait's last check saw
    waitpc        \* position of the wait: "idle", "check", "sleep", "done"

retryVars   == <<now, stack, ret, last>>
sessionVars == <<browser, initial_url, driver, running, launched, scope,
                 raised>>
pageVars    == <<present, checked, clicks, pair>>
chainVars   == <<chain, receiver>>
\* the state of the parts of the session that have their own specification
selVars     == <<sel, doc, queries, asked, answer>>
winVars     == <<windows, current, arg, visited>>
valVars     == <<field, expected, reads, message>>
waitVars    == <<waitop, matched, polls, found, waitpc>>
extVars     == <<chainVars, selVars, winVars, valVars, waitVars>>
baseVars    == <<retryVars, sessionVars, pageVars>>
vars        == <<baseVars, extVars>>

ChainInit == chain = <<>> /\ receiver = "self"

NoAnswer ==
    [op |-> "none", tag |-> "none", kind |-> "", by |-> "", value |-> "",
     elems |-> <<>>, flag |-> FALSE, num |-> 0]

NoSelector == [type |-> "str", items |-> <<"#checkbox">>]

SelInit ==
    /\ sel = NoSelector /\ doc = <<>> /\ queries = 0 /\ asked = <<>>
    /\ answer = NoAnswer

NoWindow == [h |-> 0, title |-> <<>>, url |-> <<>>]

WinInit ==
    /\ windows = <<[NoWindow EXCEPT !.h = 1]>> /\ current = 1
    /\ arg = <<>> /\ visited = <<>>

NoMessage == [by |-> "", value |-> "", expected |-> "", actual |-> ""]

ValInit ==
    /\ field = "absent" /\ expected = "" /\ reads = <<>>
    /\ message = NoMessage

WaitInit ==
    /\ waitop = "none" /\ matched = FALSE /\ polls = 0 /\ found = FALSE
    /\ waitpc = "idle"

\* the initial state of those parts
ExtInit == ChainInit /\ SelInit /\ WinInit /\ ValInit /\ WaitInit

----------------------------------------------------------------------------
(* Bounds of the model *)

MaxExtra   == 2    \* invocations explored beyond a schedule's tries
MaxTimeout == 2    \* largest timeout of an enumerated schedule
MaxTries2  == 6    \* largest tries of an enumerated schedule, in halves
MaxDelay   == 1    \* largest delay of an enumerated schedule
MaxDur     == 1    \* longest time one execution of the operation takes
MaxJitter  == 1    \* longest oversleep of time.sleep
MaxEnters  == 2    \* how often the with statement is entered on one session
MaxTime    == 20   \* the session's clock stops advancing here
BodyTime   == 1    \* time one execution of a session operation's body takes

----------------------------------------------------------------------------
(* Errors *)

NoSuchElementException == "NoSuchElementException"
WebDriverException     == "WebDriverException"
AssertionError         == "AssertionError"
NotImplementedError    == "NotImplementedError"
TypeError              == "TypeError"

\* issubclass(k, c) for the exception classes the module imports and raises
IsSubclass(k, c) ==
    \/ k = c
    \/ c = WebDriverException /\ k = NoSuchElementException

Caught_Everything(k, exceptions) == k = k /\ exceptions = exceptions
\* `except exceptions:` catches an error of kind k
Caught(k, exceptions) == \E c \in exceptions : IsSubclass(k, c)

None == [tag |-> "none", val |-> "", id |-> 0]
Ok(v, n)  == [tag |-> "ok",  val |-> v, id |-> n]
Err(k, n) == [tag |-> "err", val |-> k, id |-> n]

----------------------------------------------------------------------------
(* retry(exceptions, timeout, delay, tries) *)

\* math.ceil of a number given in halves
Ceil2(tries2) == (tries2 + 1) \div 2

DefaultTimeout == 10
DefaultDelay   == 0
DefaultTries   == 10

\* the closure retry() builds; delay < 0 is rejected at line 30
Retry(exceptions, timeout, delay, tries2) ==
    [exceptions |-> exceptions, timeout |-> timeout, delay |-> delay,
     indefinite |-> timeout < 0, tries |-> Ceil2(tries2)]

\* min_tries = tries - 2
MinTries_OffByOne(tries) == tries - 3
MinTries(tries) == tries - 2

\* end_time = time.time(); if not indefinite: end_time += timeout
EndTime(t, indefinite, timeout) == IF indefinite THEN t ELSE t + timeout

\* if delay > 0: time.sleep(delay) -- the time the wrapper spends sleeping
SleepFor_Skipped(delay, jitter) == 0
SleepFor(delay, jitter) == IF delay > 0 THEN delay + jitter ELSE 0

\* if not indefinite and time.time() > end_time and min_tries < 1: break
Break_Never(indefinite, t, end_time, min_tries) ==
    ~indefinite /\ t > end_time /\ min_tries < 0
Break_AtDeadline(indefinite, t, end_time, min_tries) ==
    ~indefinite /\ t >= end_time /\ min_tries < 1
Break_Always(indefinite, t, end_time, min_tries) ==
    t > end_time /\ min_tries < 1
Break(indefinite, t, end_time, min_tries) ==
    ~indefinite /\ t > end_time /\ min_tries < 1

\* if min_tries > 0: min_tries -= 1
Decrement_Unguarded(min_tries) == min_tries - 1
Decrement(min_tries) == IF min_tries > 0 THEN min_tries - 1 ELSE min_tries

\* return function(*args, **kwargs): the wrapper yields what the call yields
WrapperReturn_Synthetic(o) ==
    IF o.tag = "err" THEN Err("RetryTimeout", 0) ELSE o
WrapperReturn(o) == o

NoFrame ==
    [fn |-> "none", mark |-> FALSE, body |-> "start", exceptions |-> {},
     timeout |-> 0, delay |-> 0, indefinite |-> FALSE, tries |-> 0,
     min_tries |-> 0, end_time |-> 0, pc |-> "try",
     attempts |-> 0, started |-> -1, prev |-> -1, late |-> 0,
     kinds |-> {}, out |-> None]

\* entry of wrapper(): lines 40-43, for a call of function fn at time t.
\* attempts, started, prev, late, kinds and out are history of the call.
NewFrame(fn, mark, r, t) ==
    [fn |-> fn, mark |-> mark, body |-> "start", exceptions |-> r.exceptions,
     timeout |-> r.timeout, delay |-> r.delay, indefinite |-> r.indefinite,
     tries |-> r.tries,
     min_tries |-> MinTries(r.tries),
     end_time |-> EndTime(t, r.indefinite, r.timeout),
     pc |-> "try",
     attempts |-> 0, started |-> -1, prev |-> -1, late |-> 0,
     kinds |-> {}, out |-> None]

Top == stack[Len(stack)]
Pop == SubSeq(stack, 1, Len(stack) - 1)
SetTop(f) == [stack EXCEPT ![Len(stack)] = f]

\* function(*args, **kwargs) is entered at time t (line 46 or line 54)
Invoked(f, t) ==
    [f EXCEPT !.attempts = @ + 1, !.prev = f.started, !.started = t,
              !.late = IF ~f.indefinite /\ t > f.end_time THEN @ + 1 ELSE @]

\* try: return function(...) / except exceptions: -- the outcome o of an
\* invocation leaves the wrapper (returned or propagated) instead of being
\* handled by the except clause; the final attempt is outside the try.
Leaves_BareExcept(pc, o, exceptions) == pc = "final" \/ o.tag = "ok"
Leaves(pc, o, exceptions) ==
    pc = "final" \/ o.tag = "ok" \/ ~Caught(o.val, exceptions)

\* The wrapper, after the body of call f ended with outcome o at time t:
\* line 46 / 54 return or propagate; lines 47-53 catch, sleep, test, decrement.
Handle(f, o, t, jitter) ==
    LET g == [f EXCEPT !.out = o, !.kinds = @ \cup {IF o.tag = "ok" THEN "ok" ELSE o.val}, !.body = "start"]
    IN  IF Leaves(f.pc, o, f.exceptions)
        THEN /\ stack' = Pop
             /\ ret' = WrapperReturn(o)
             /\ last' = IF Len(stack) = 1
                        THEN [f |-> g, out |-> WrapperReturn(o)] ELSE last
             /\ now' = t
        ELSE LET t2 == t + SleepFor(f.delay, jitter)
                 brk == Break(f.indefinite, t2, f.end_time, f.min_tries)
             IN  /\ now' = t2
                 /\ ret' = None
                 /\ last' = last
                 /\ stack' = SetTop([g EXCEPT
                        !.pc = IF brk THEN "final" ELSE "try",
                        !.min_tries = IF brk THEN @ ELSE Decrement(@)])

----------------------------------------------------------------------------
(* The retry wrapper around an arbitrary operation *)

Timeouts   == -1 .. MaxTimeout
Delays     == 0 .. MaxDelay
Tries2s    == 0 .. MaxTries2
ExceptSets == { {NoSuchElementException},
                {NoSuchElementException, WebDriverException},
                {AssertionError, NoSuchElementException} }
OpResults  == { "ok", NoSuchElementException, WebDriverException,
                AssertionError, TypeError }
Durs       == 0 .. MaxDur
Jitters    == 0 .. MaxJitter

NoLast == [f |-> NoFrame, out |-> None]

SessionInit ==
    /\ driver = 0 /\ running = {} /\ launched = 0 /\ scope = "out"
    /\ raised = None

NoPair == [stage |-> 0, mark |-> FALSE, s0 |-> FALSE]

PageInit == clicks = 0 /\ pair = NoPair

InitRetry ==
    /\ now = 0 /\ stack = <<>> /\ ret = None /\ last = NoLast
    /\ browser = "firefox" /\ initial_url = "none"
    /\ SessionInit
    /\ present = TRUE /\ checked = FALSE
    /\ PageInit
    /\ ExtInit

\* a decorated operation is called: wrapper() starts
CallOp ==
    /\ stack = <<>> /\ last = NoLast
    /\ \E ex \in ExceptSets, to \in Timeouts, d \in Delays, tr \in Tries2s :
         stack' = <<NewFrame("op", FALSE, Retry(ex, to, d, tr), now)>>
    /\ UNCHANGED <<now, ret, last>>
    /\ UNCHANGED sessionVars /\ UNCHANGED pageVars
    /\ UNCHANGED extVars

\* one invocation of the operation and the wrapper's reaction to it
OpAttempt ==
    /\ stack # <<>> /\ Top.fn = "op"
    /\ Top.attempts < Top.tries + MaxExtra
    /\ \E r \in OpResults, dur \in Durs, jitter \in Jitters :
         LET f == Invoked(Top, now)
             o == IF r = "ok" THEN Ok("value", f.attempts)
                              ELSE Err(r, f.attempts)
         IN  Handle(f, o, now + dur, jitter)
    /\ UNCHANGED sessionVars /\ UNCHANGED pageVars
    /\ UNCHANGED extVars

NextRetry == CallOp \/ OpAttempt

SpecRetry == InitRetry /\ [][NextRetry]_vars

----------------------------------------------------------------------------
(* The Locomotive session under a with statement *)

BrowserNames == { "Firefox", "phantomjs", "lynx" }

\* str.lower on the browser names and the selector kinds
Lower(name) ==
    CASE name = "Firefox" -> "firefox"
      [] name = "ID"      -> "id"
      [] name = "Link"    -> "link"
      [] OTHER            -> name

\* the names __enter__ has a webdriver for
Supported == { "chrome", "firefox", "android", "edge", "ie", "opera",
               "phantomjs", "safari" }

\* Locomotive(browser, url): __init__
Init ==
    /\ now = 0 /\ stack = <<>> /\ ret = None /\ last = NoLast
    /\ browser \in { Lower(b) : b \in BrowserNames }
    /\ initial_url \in { "none", "url" }
    /\ SessionInit
    /\ present \in BOOLEAN /\ checked \in BOOLEAN
    /\ PageInit
    /\ ExtInit

\* `with session as driver:` calls __enter__; when __enter__ raises, neither
\* the body nor __exit__ runs.  driver.get(url) may raise.
Enter ==
    /\ scope \in {"out", "left"} /\ stack = <<>>
    /\ launched < MaxEnters
    /\ IF browser \notin Supported
       THEN /\ scope' = "left"
            /\ raised' = Err(NotImplementedError, 0)
            /\ UNCHANGED <<driver, running, launched>>
       ELSE /\ driver' = launched + 1
            /\ running' = running \cup {launched + 1}
            /\ launched' = launched + 1
            /\ IF initial_url = "none"
               THEN scope' = "in" /\ raised' = None
               ELSE \E loaded \in BOOLEAN :
                      IF loaded
                      THEN scope' = "in" /\ raised' = None
                      ELSE /\ scope' = "left"
                           /\ raised' = Err(WebDriverException, 0)
    /\ present' \in BOOLEAN /\ checked' \in BOOLEAN
    /\ clicks' = 0 /\ pair' = NoPair
    /\ UNCHANGED <<now, stack, ret, last, browser, initial_url>>
    /\ UNCHANGED extVars

\* the with statement is left, normally or by the exception an operation of
\* the body raised: __exit__ runs
Exit ==
    /\ scope = "in" /\ stack = <<>> /\ ret.tag \in {"none", "err"}
    /\ running' = IF driver # 0 THEN running \ {driver} ELSE running
    /\ scope' = "left" /\ raised' = ret /\ ret' = None
    /\ pair' = NoPair /\ last' = NoLast
    /\ UNCHANGED <<now, stack, browser, initial_url, driver, launched,
                   present, checked, clicks>>
    /\ UNCHANGED extVars

\* a statement of the with body completed; the next one may start
BodyReturn ==
    /\ scope = "in" /\ stack = <<>> /\ ret.tag = "ok"
    /\ ret' = None /\ last' = NoLast
    /\ pair' = IF pair.stage \in {1, 3}
               THEN [pair EXCEPT !.stage = @ + 1] ELSE NoPair
    /\ UNCHANGED <<now, stack, present, checked, clicks>>
    /\ UNCHANGED sessionVars
    /\ UNCHANGED extVars

\* the page adds or removes the checkbox while the script runs
DomChange ==
    /\ scope = "in"
    /\ present' = ~present
    /\ UNCHANGED <<now, stack, ret, last, checked, clicks, pair>>
    /\ UNCHANGED sessionVars
    /\ UNCHANGED extVars

\* @retry(NoSuchElementException) of check
CheckRetry ==
    Retry({NoSuchElementException}, DefaultTimeout, DefaultDelay,
          2 * DefaultTries)

\* @retry((NoSuchElementException, WebDriverException)) of click
ClickRetry ==
    Retry({NoSuchElementException, WebDriverException}, DefaultTimeout,
          DefaultDelay, 2 * DefaultTries)

\* every execution of an operation's body talks to the browser and takes time
SessionDurs == {BodyTime}

\* __get_element(selector) for the checkbox's selector, single element
GetElement(isPresent, n) ==
    IF isPresent THEN Ok("element", n) ELSE Err(NoSuchElementException, n)

\* if self.is_checked(selector) is not mark
NeedsClick_Always(selected, mark) == TRUE
NeedsClick(selected, mark) == selected # mark

\* driver.check(selector, mark) in the with body; uncheck(selector) is
\* check(selector, False)
CallCheck ==
    /\ scope = "in" /\ stack = <<>> /\ ret = None
    /\ \E mark \in BOOLEAN :
         /\ stack' = <<NewFrame("check", mark, CheckRetry, now)>>
         /\ IF pair.stage = 2 /\ pair.mark = mark
            THEN pair' = [pair EXCEPT !.stage = 3] /\ clicks' = clicks
            ELSE /\ pair' = [stage |-> 1, mark |-> mark, s0 |-> checked]
                 /\ clicks' = 0
    /\ UNCHANGED <<now, ret, last, present, checked>>
    /\ UNCHANGED sessionVars
    /\ UNCHANGED extVars

\* driver.click(selector) in the with body
CallClick ==
    /\ scope = "in" /\ stack = <<>> /\ ret = None
    /\ stack' = <<NewFrame("click", FALSE, ClickRetry, now)>>
    /\ pair' = NoPair /\ clicks' = 0
    /\ UNCHANGED <<now, ret, last, present, checked>>
    /\ UNCHANGED sessionVars
    /\ UNCHANGED extVars

\* the body of check up to its return or its call of self.click
CheckAttempt ==
    /\ stack # <<>> /\ Top.fn = "check" /\ Top.body = "start" /\ ret = None
    /\ Top.attempts < Top.tries + MaxExtra
    /\ \E dur \in SessionDurs :
         /\ now + dur <= MaxTime
         /\ LET f == Invoked(Top, now)
                e == GetElement(present, f.attempts)
            IN  IF e.tag = "err"
                THEN Handle(f, e, now + dur, 0)
                ELSE IF NeedsClick(checked, f.mark)
                THEN /\ stack' = Append(SetTop([f EXCEPT !.body = "click"]),
                                  NewFrame("click", FALSE, ClickRetry,
                                           now + dur))
                     /\ now' = now + dur
                     /\ UNCHANGED <<ret, last>>
                ELSE Handle(f, Ok("self", f.attempts), now + dur, 0)
    /\ UNCHANGED <<present, checked, clicks, pair>>
    /\ UNCHANGED sessionVars
    /\ UNCHANGED extVars

\* self.click(selector) came back into check: return self, or the error
\* click raised passes through the body of check
CheckResume ==
    /\ stack # <<>> /\ Top.fn = "check" /\ Top.body = "click" /\ ret # None
    /\ Handle(Top, IF ret.tag = "ok" THEN Ok("self", Top.attempts) ELSE ret,
              now, 0)
    /\ UNCHANGED <<present, checked, clicks, pair>>
    /\ UNCHANGED sessionVars
    /\ UNCHANGED extVars

\* the body of click: find the element and click it; the driver may refuse
\* the click with a WebDriverException
ClickAttempt ==
    /\ stack # <<>> /\ Top.fn = "click" /\ ret = None
    /\ Top.attempts < Top.tries + MaxExtra
    /\ \E dur \in SessionDurs, refused \in BOOLEAN :
         /\ now + dur <= MaxTime
         /\ LET f == Invoked(Top, now)
                e == GetElement(present, f.attempts)
            IN  IF e.tag = "err"
                THEN Handle(f, e, now + dur, 0) /\ UNCHANGED <<checked, clicks>>
                ELSE IF refused
                THEN /\ Handle(f, Err(WebDriverException, f.attempts),
                               now + dur, 0)
                     /\ UNCHANGED <<checked, clicks>>
                ELSE /\ Handle(f, Ok("self", f.attempts), now + dur, 0)
                     /\ checked' = ~checked
                     /\ clicks' = clicks + 1
    /\ UNCHANGED <<present, pair>>
    /\ UNCHANGED sessionVars
    /\ UNCHANGED extVars

Next ==
    \/ Enter \/ Exit \/ BodyReturn \/ DomChange
    \/ CallCheck \/ CallClick
    \/ CheckAttempt \/ CheckResume \/ ClickAttempt

Spec == Init /\ [][Next]_vars

\* the lifecycle state of the session
Lifecycle ==
    IF driver = 0 THEN "Unstarted"
    ELSE IF driver \in running THEN "Active" ELSE "Terminated"

----------------------------------------------------------------------------
(* Fluent chains: what each public method returns *)

MaxChain == 2    \* longest chain of calls explored

\* the methods that change the browser or assert something, named by the
\* way they are called: text/select_text/select_value with a value to set,
\* close_window with and without a text, switch_to_frame with and without an
\* argument
Chaining ==
    { "get", "text_set", "text_set_select", "click", "check", "uncheck",
      "select_text_set", "select_value_set", "alert", "wait",
      "wait_present", "wait_not_present", "wait_source", "wait_not_source",
      "switch_to_window_regex", "switch_to_window", "close_window_regex",
      "close_window", "close_window_text", "switch_to_frame",
      "switch_to_frame_default", "switch_to_default_content",
      "validate_present", "validate_not_present", "validate_text",
      "validate_text_not", "validate_source_contains",
      "validate_source_not_contains", "validate_checked",
      "validate_unchecked" }

\* the methods that read something from the page
Reading ==
    { "text_get", "select_text_get", "select_value_get", "is_checked",
      "is_present", "count_present" }

Methods == Chaining \cup Reading

\* The value a call of method m yields when it raises nothing: "self" for
\* `return self` (directly or through the method it delegates to), "value"
\* for a value read from the page, "None" when the body ends without a
\* return statement.
Returns(m) ==
    IF m \in Reading THEN "value"
    ELSE IF m \in { "uncheck", "validate_text", "validate_text_not" }
    THEN "None"
    ELSE "self"

\* one more call is appended to the chain: receiver.m(...).  A call on
\* anything but the session has no such method.
ChainCall ==
    /\ Len(chain) < MaxChain
    /\ receiver # "AttributeError"
    /\ \E m \in Methods :
         /\ chain' = Append(chain, m)
         /\ receiver' = IF receiver = "self" THEN Returns(m)
                        ELSE "AttributeError"
    /\ UNCHANGED baseVars
    /\ UNCHANGED <<selVars, winVars, valVars, waitVars>>

InitChain == InitRetry

NextChain == ChainCall

SpecChain == InitChain /\ [][NextChain]_vars

----------------------------------------------------------------------------
(* Selectors and element resolution *)

MaxElems == 2    \* most elements in the document
MaxChurn == 1    \* the page stops changing after this many attempts

IndexError == "IndexError"

\* the errors that tell the caller its arguments are wrong
ConfigErrors == { TypeError, NotImplementedError, IndexError }

KindNames == { "css", "ID", "Link", "name", "frob" }
Values    == { "#checkbox", "q" }

\* The selector arguments: a string, a tuple of 0 to 3 strings, a list pair,
\* a number.
Selectors ==
    { [type |-> "str", items |-> <<v>>] : v \in Values } \cup
    { [type |-> "tuple", items |-> <<>>] } \cup
    { [type |-> "tuple", items |-> <<k>>] : k \in KindNames } \cup
    { [type |-> "tuple", items |-> <<k, v>>] : k \in KindNames, v \in Values }
    \cup
    { [type |-> "tuple", items |-> <<k, v, "extra">>] :
          k \in KindNames, v \in Values } \cup
    { [type |-> "list", items |-> <<"ID", "#checkbox">>],
      [type |-> "int", items |-> <<>>] }

\* clean_selector(selector).  A tuple is indexed at 0 and 1 whatever its
\* length: indexing past the end raises IndexError, further items are
\* ignored.
CleanSelector(s) ==
    IF s.type = "tuple"
    THEN IF Len(s.items) < 2
         THEN [tag |-> "err", kind |-> IndexError, by |-> "", value |-> ""]
         ELSE [tag |-> "ok", kind |-> "", by |-> Lower(s.items[1]),
               value |-> s.items[2]]
    ELSE IF s.type = "str"
    THEN [tag |-> "ok", kind |-> "", by |-> "css", value |-> s.items[1]]
    ELSE [tag |-> "err", kind |-> TypeError, by |-> "", value |-> ""]

\* the kinds __get_element has a find_elements_by_* call for
SupportedKinds == { "css", "id", "name", "class", "link", "xpath" }

\* select_value.strip("#")
Strip(v) == IF v = "#checkbox" THEN "checkbox" ELSE v

\* the query __get_element sends to the driver for (select_by, select_value)
Query(by, value) == <<by, IF by = "id" THEN Strip(value) ELSE value>>

\* The document: for each element, in document order, whether the
\* selector's query matches it.  An element is named by its position.
Docs == UNION { [1 .. n -> BOOLEAN] : n \in 0 .. MaxElems }

RECURSIVE HitsFrom(_, _)
HitsFrom(d, i) ==
    IF i > Len(d) THEN <<>>
    ELSE IF d[i] THEN <<i>> \o HitsFrom(d, i + 1) ELSE HitsFrom(d, i + 1)

\* find_elements_*: the matching elements in document order
Hits(d) == HitsFrom(d, 1)

\* __get_element(selector, get_multiple) on document d: the elements it
\* returns (one element when get_multiple is false) or the error it raises;
\* queried tells whether the driver was asked.
GetElements_LastWins(s, d, multiple) ==
    LET c == CleanSelector(s) IN
    IF c.tag = "err"
    THEN [tag |-> "err", kind |-> c.kind, elems |-> <<>>, queried |-> FALSE,
          query |-> <<>>]
    ELSE IF c.by \notin SupportedKinds
    THEN [tag |-> "err", kind |-> NotImplementedError, elems |-> <<>>,
          queried |-> FALSE, query |-> <<>>]
    ELSE IF multiple
    THEN [tag |-> "ok", kind |-> "", elems |-> Hits(d), queried |-> TRUE,
          query |-> Query(c.by, c.value)]
    ELSE IF Hits(d) = <<>>
    THEN [tag |-> "err", kind |-> NoSuchElementException, elems |-> <<>>,
          queried |-> TRUE, query |-> Query(c.by, c.value)]
    ELSE [tag |-> "ok", kind |-> "", elems |-> <<Hits(d)[Len(Hits(d))]>>,
          queried |-> TRUE, query |-> Query(c.by, c.value)]
GetElements(s, d, multiple) ==
    LET c == CleanSelector(s) IN
    IF c.tag = "err"
    THEN [tag |-> "err", kind |-> c.kind, elems |-> <<>>, queried |-> FALSE,
          query |-> <<>>]
    ELSE IF c.by \notin SupportedKinds
    THEN [tag |-> "err", kind |-> NotImplementedError, elems |-> <<>>,
          queried |-> FALSE, query |-> <<>>]
    ELSE IF multiple
    THEN [tag |-> "ok", kind |-> "", elems |-> Hits(d), queried |-> TRUE,
          query |-> Query(c.by, c.value)]
    ELSE IF Hits(d) = <<>>
    THEN [tag |-> "err", kind |-> NoSuchElementException, elems |-> <<>>,
          queried |-> TRUE, query |-> Query(c.by, c.value)]
    ELSE [tag |-> "ok", kind |-> "", elems |-> <<Hits(d)[1]>>,
          queried |-> TRUE, query |-> Query(c.by, c.value)]

\* count_present(selector): len(__get_element(selector, get_multiple=True))
CountPresent(s, d) ==
    LET r == GetElements(s, d, TRUE) IN
    [r EXCEPT !.elems = <<>>] @@ [num |-> Len(r.elems)]

ValidateTimeout == 2

\* The decorated methods that take a selector: the arguments of their
\* @retry, whether they resolve all matches, and whether they call
\* clean_selector themselves first.
SelOps ==
    [ text              |-> [ex |-> {NoSuchElementException},
                             timeout |-> DefaultTimeout, multiple |-> FALSE,
                             cleans |-> FALSE],
      click             |-> [ex |-> {NoSuchElementException,
                                     WebDriverException},
                             timeout |-> DefaultTimeout, multiple |-> FALSE,
                             cleans |-> FALSE],
      check             |-> [ex |-> {NoSuchElementException},
                             timeout |-> DefaultTimeout, multiple |-> FALSE,
                             cleans |-> FALSE],
      select_text       |-> [ex |-> {NoSuchElementException},
                             timeout |-> DefaultTimeout, multiple |-> FALSE,
                             cleans |-> FALSE],
      select_value      |-> [ex |-> {NoSuchElementException},
                             timeout |-> DefaultTimeout, multiple |-> FALSE,
                             cleans |-> FALSE],
      validate_present  |-> [ex |-> {AssertionError},
                             timeout |-> ValidateTimeout, multiple |-> TRUE,
                             cleans |-> TRUE],
      validate_not_present |-> [ex |-> {AssertionError},
                             timeout |-> ValidateTimeout, multiple |-> TRUE,
                             cleans |-> TRUE],
      validate_text     |-> [ex |-> {AssertionError, NoSuchElementException},
                             timeout |-> ValidateTimeout, multiple |-> FALSE,
                             cleans |-> TRUE],
      validate_checked  |-> [ex |-> {AssertionError, NoSuchElementException},
                             timeout |-> ValidateTimeout, multiple |-> FALSE,
                             cleans |-> TRUE] ]

SelOpNames == DOMAIN SelOps

\* the body of decorated method m on selector s and document d, up to the
\* element it works on: the error it raises before it has one, or "ok"
SelBody(m, s, d) ==
    LET c == CleanSelector(s)
        r == GetElements(s, d, SelOps[m].multiple)
    IN  IF SelOps[m].cleans /\ c.tag = "err" THEN r
        ELSE IF r.tag = "err" THEN r
        ELSE IF m = "validate_present" /\ r.elems = <<>>
        THEN [r EXCEPT !.tag = "err", !.kind = AssertionError]
        ELSE IF m = "validate_not_present" /\ r.elems # <<>>
        THEN [r EXCEPT !.tag = "err", !.kind = AssertionError]
        ELSE r

\* the session is active (inside the with statement) and no call is running
ActiveInit ==
    /\ now = 0 /\ stack = <<>> /\ ret = None /\ last = NoLast
    /\ browser = "firefox" /\ initial_url = "none"
    /\ driver = 1 /\ running = {1} /\ launched = 1 /\ scope = "in"
    /\ raised = None
    /\ present = TRUE /\ checked = FALSE
    /\ PageInit

InitSelect ==
    /\ ActiveInit
    /\ ChainInit /\ WinInit /\ ValInit /\ WaitInit
    /\ sel \in Selectors /\ doc \in Docs
    /\ queries = 0 /\ asked = <<>> /\ answer = NoAnswer

selRest == <<sessionVars, pageVars, chainVars, winVars, valVars, waitVars>>

\* the page adds or removes elements while the script runs
DocChange ==
    /\ stack # <<>> /\ Top.attempts <= MaxChurn
    /\ doc' \in Docs \ {doc}
    /\ UNCHANGED <<sel, queries, asked, answer>>
    /\ UNCHANGED retryVars /\ UNCHANGED selRest

\* clean_selector(selector) on its own
CleanCall ==
    /\ stack = <<>> /\ last = NoLast
    /\ LET c == CleanSelector(sel)
       IN  answer' = [NoAnswer EXCEPT !.op = "clean_selector", !.tag = c.tag,
                         !.kind = c.kind, !.by = c.by, !.value = c.value]
    /\ UNCHANGED <<sel, doc, queries, asked>>
    /\ UNCHANGED retryVars /\ UNCHANGED selRest

\* __get_element(selector), as is_checked and the waits call it, and
\* __get_element(selector, get_multiple=True)
GetElementCall ==
    /\ stack = <<>> /\ last = NoLast
    /\ \E multiple \in BOOLEAN :
         LET r == GetElements(sel, doc, multiple)
         IN  /\ answer' = [NoAnswer EXCEPT !.op = "get_element",
                              !.flag = multiple, !.tag = r.tag,
                              !.kind = r.kind, !.elems = r.elems]
             /\ asked' = IF r.queried THEN r.query ELSE asked
    /\ UNCHANGED <<sel, doc, queries>>
    /\ UNCHANGED retryVars /\ UNCHANGED selRest

\* count_present(selector)
CountPresentCall ==
    /\ stack = <<>> /\ last = NoLast
    /\ LET r == CountPresent(sel, doc)
       IN  /\ answer' = [NoAnswer EXCEPT !.op = "count_present",
                            !.tag = r.tag, !.kind = r.kind, !.num = r.num]
           /\ asked' = IF r.queried THEN r.query ELSE asked
    /\ UNCHANGED <<sel, doc, queries>>
    /\ UNCHANGED retryVars /\ UNCHANGED selRest

\* is_present(selector): count_present(selector) > 0
IsPresentCall ==
    /\ stack = <<>> /\ last = NoLast
    /\ LET r == CountPresent(sel, doc)
       IN  /\ answer' = [NoAnswer EXCEPT !.op = "is_present",
                            !.tag = r.tag, !.kind = r.kind,
                            !.flag = (r.tag = "ok" /\ r.num > 0)]
           /\ asked' = IF r.queried THEN r.query ELSE asked
    /\ UNCHANGED <<sel, doc, queries>>
    /\ UNCHANGED retryVars /\ UNCHANGED selRest

\* a decorated method is called with the selector
SelCall ==
    /\ stack = <<>> /\ last = NoLast
    /\ \E m \in SelOpNames :
         stack' = <<NewFrame(m, FALSE,
                      Retry(SelOps[m].ex, SelOps[m].timeout, DefaultDelay,
                            2 * DefaultTries), now)>>
    /\ queries' = 0
    /\ UNCHANGED <<now, ret, last, sel, doc, asked, answer>>
    /\ UNCHANGED selRest

\* one execution of the method's body and the wrapper's reaction to it
SelAttempt ==
    /\ stack # <<>> /\ Top.fn \in SelOpNames
    /\ Top.attempts < Top.tries + MaxExtra
    /\ now + BodyTime <= MaxTime
    /\ LET f == Invoked(Top, now)
           r == SelBody(f.fn, sel, doc)
           o == IF r.tag = "err" THEN Err(r.kind, f.attempts)
                ELSE Ok("value", f.attempts)
       IN  /\ Handle(f, o, now + BodyTime, 0)
           /\ queries' = IF r.queried THEN queries + 1 ELSE queries
           /\ asked' = IF r.queried THEN r.query ELSE asked
    /\ UNCHANGED <<sel, doc, answer>>
    /\ UNCHANGED selRest

NextSelect ==
    \/ DocChange \/ CleanCall \/ GetElementCall \/ CountPresentCall
    \/ IsPresentCall \/ SelCall \/ SelAttempt

SpecSelect == InitSelect /\ [][NextSelect]_vars

----------------------------------------------------------------------------
(* Windows: switch_to_window, close_window *)

MaxWindows == 2    \* most windows open at a time

NoSuchWindowException == "NoSuchWindowException"

\* titles, URLs and texts are strings of characters; "." is a character too
Titles == { <<"g">>, <<"x">>, <<".">>, <<"x", "g">> }
Urls   == { <<"g">>, <<"x">> }
Texts  == { <<"g">>, <<".">> }

\* re.compile(".*" + text + ".*").match(s): text is read as a pattern, in
\* which "." stands for any character, and may match anywhere in s
Match(text, s) ==
    \E i \in 0 .. (Len(s) - Len(text)) :
        \A j \in 1 .. Len(text) : text[j] = "." \/ s[i + j] = text[j]

\* pat.match(self._driver.title) or pat.match(self._driver.current_url)
Matches(text, w) == Match(text, w.title) \/ Match(text, w.url)

\* The position of the window at which `for handle in window_handles`
\* stops, 0 when the loop runs to its end.
FirstMatch_Last(text, ws) ==
    IF \E i \in 1 .. Len(ws) : Matches(text, ws[i])
    THEN CHOOSE i \in 1 .. Len(ws) :
           /\ Matches(text, ws[i])
           /\ \A k \in 1 .. Len(ws) : Matches(text, ws[k]) => k <= i
    ELSE 0
FirstMatch(text, ws) ==
    IF \E i \in 1 .. Len(ws) : Matches(text, ws[i])
    THEN CHOOSE i \in 1 .. Len(ws) :
           /\ Matches(text, ws[i])
           /\ \A k \in 1 .. i - 1 : ~Matches(text, ws[k])
    ELSE 0

\* the handles of windows ws from the first to the n-th
Handles(ws, n) == [k \in 1 .. n |-> ws[k].h]

\* window_handles once the i-th window is closed
Without(ws, i) ==
    [k \in 1 .. Len(ws) - 1 |-> IF k < i THEN ws[k] ELSE ws[k + 1]]

\* The driver's context after self._driver.close(): the closed window's
\* handle is stale (0) unless exactly one window is left, which is then
\* switched to.
AfterClose_Stale(ws) == 0 * Len(ws)
AfterClose(ws) == IF Len(ws) = 1 THEN ws[1].h ELSE 0

\* The driver's context when the loop over window_handles ws ends, i being
\* the position it stopped at (0: it ran to its end) and cur the context
\* before the call: switch_to.window(handle) has run for every handle
\* visited and nothing switches back.
ContextAfterLoop_Restored(ws, i, cur) == IF i = 0 THEN cur ELSE ws[i].h
ContextAfterLoop(ws, i, cur) ==
    LET n == IF i = 0 THEN Len(ws) ELSE i
    IN  IF n = 0 THEN cur ELSE ws[n].h

WindowSeqs ==
    { ws \in UNION { [1 .. n -> [h : 1 .. MaxWindows, title : Titles,
                                 url : Urls]] : n \in 1 .. MaxWindows } :
        \A k \in 1 .. Len(ws) : ws[k].h = k }

WindowRetry ==
    Retry({NoSuchWindowException}, DefaultTimeout, DefaultDelay,
          2 * DefaultTries)

InitWindows ==
    /\ ActiveInit
    /\ ChainInit /\ SelInit /\ ValInit /\ WaitInit
    /\ windows \in WindowSeqs
    /\ current \in { windows[k].h : k \in 1 .. Len(windows) }
    /\ arg \in Texts
    /\ visited = <<>>

winRest == <<sessionVars, pageVars, chainVars, selVars, valVars, waitVars>>

\* a link opens a new window while the call is retrying
WindowOpens ==
    /\ stack # <<>> /\ Top.attempts <= MaxChurn
    /\ Len(windows) < MaxWindows
    /\ \E t \in Titles, u \in Urls :
         LET used == { windows[k].h : k \in 1 .. Len(windows) }
             h == CHOOSE x \in (1 .. MaxWindows) \ used :
                      \A y \in (1 .. MaxWindows) \ used : x <= y
         IN  windows' = Append(windows, [h |-> h, title |-> t, url |-> u])
    /\ UNCHANGED <<current, arg, visited>>
    /\ UNCHANGED retryVars /\ UNCHANGED winRest

\* switch_to_window(text) calls the decorated switch_to_window_regex
SwitchCall ==
    /\ stack = <<>> /\ last = NoLast
    /\ stack' = <<NewFrame("switch_to_window_regex", FALSE, WindowRetry,
                           now)>>
    /\ UNCHANGED <<now, ret, last>>
    /\ UNCHANGED winVars /\ UNCHANGED winRest

\* close_window(text) calls the decorated close_window_regex
CloseTextCall ==
    /\ stack = <<>> /\ last = NoLast
    /\ stack' = <<NewFrame("close_window_regex", FALSE, WindowRetry, now)>>
    /\ UNCHANGED <<now, ret, last>>
    /\ UNCHANGED winVars /\ UNCHANGED winRest

\* close_window(): the current window is closed; no retry wrapper
CloseCurrentCall ==
    /\ stack = <<>> /\ last = NoLast
    /\ \E i \in 1 .. Len(windows) :
         /\ windows[i].h = current
         /\ windows' = Without(windows, i)
         /\ current' = AfterClose(windows')
    /\ last' = [f |-> [NoFrame EXCEPT !.fn = "close_window"],
                out |-> Ok("self", 1)]
    /\ UNCHANGED <<now, stack, ret, arg, visited>>
    /\ UNCHANGED winRest

\* one execution of the body of switch_to_window_regex or
\* close_window_regex and the wrapper's reaction to it
WinAttempt ==
    /\ stack # <<>>
    /\ Top.fn \in { "switch_to_window_regex", "close_window_regex" }
    /\ Top.attempts < Top.tries + MaxExtra
    /\ now + BodyTime <= MaxTime
    /\ LET f == Invoked(Top, now)
           i == FirstMatch(arg, windows)
           n == IF i = 0 THEN Len(windows) ELSE i
           o == IF i = 0 THEN Err(NoSuchWindowException, f.attempts)
                ELSE Ok("self", f.attempts)
       IN  /\ visited' = Handles(windows, n)
           /\ windows' = IF i # 0 /\ f.fn = "close_window_regex"
                         THEN Without(windows, i) ELSE windows
           /\ current' = IF i # 0 /\ f.fn = "close_window_regex"
                         THEN AfterClose(windows')
                         ELSE ContextAfterLoop(windows, i, current)
           /\ Handle(f, o, now + BodyTime, 0)
    /\ UNCHANGED arg
    /\ UNCHANGED winRest

NextWindows ==
    \/ WindowOpens \/ SwitchCall \/ CloseTextCall \/ CloseCurrentCall
    \/ WinAttempt

SpecWindows == InitWindows /\ [][NextWindows]_vars

----------------------------------------------------------------------------
(* validate_text *)

ElementTexts == { "a", "b" }
FieldValues  == ElementTexts \cup { "absent" }

\* @retry((AssertionError, NoSuchElementException), timeout=2)
ValidateRetry_NoSuchElementOnly ==
    Retry({NoSuchElementException}, ValidateTimeout, DefaultDelay,
          2 * DefaultTries)
ValidateRetry ==
    Retry({AssertionError, NoSuchElementException}, ValidateTimeout,
          DefaultDelay, 2 * DefaultTries)

\* "{0}({1}) text does not equal '{2}' (actual: '{3}')".format(...)
TextMessage(s, text, actual) ==
    [by |-> CleanSelector(s).by, value |-> CleanSelector(s).value,
     expected |-> text, actual |-> actual]

\* The body of validate_text(selector, text) on an element showing fld:
\* __text raises NoSuchElementException when the element is absent, the
\* assert raises AssertionError when the text differs; n numbers the attempt.
ValidateText(s, text, fld, n) ==
    IF CleanSelector(s).tag = "err" THEN Err(CleanSelector(s).kind, n)
    ELSE IF fld = "absent" THEN Err(NoSuchElementException, n)
    ELSE IF fld = text THEN Ok("None", n)
    ELSE Err(AssertionError, n)

InitValidate ==
    /\ ActiveInit
    /\ ChainInit /\ SelInit /\ WinInit /\ WaitInit
    /\ field \in FieldValues /\ expected \in ElementTexts
    /\ reads = <<>> /\ message = NoMessage

valRest == <<sessionVars, pageVars, chainVars, selVars, winVars, waitVars>>

\* the page updates the element while the call is retrying
FieldChange ==
    /\ stack # <<>>
    /\ field' \in FieldValues \ {field}
    /\ UNCHANGED <<expected, reads, message>>
    /\ UNCHANGED retryVars /\ UNCHANGED valRest

\* validate_text(selector, text) is called
ValidateCall ==
    /\ stack = <<>> /\ last = NoLast
    /\ stack' = <<NewFrame("validate_text", FALSE, ValidateRetry, now)>>
    /\ UNCHANGED <<now, ret, last>>
    /\ UNCHANGED valVars /\ UNCHANGED valRest

\* one execution of the body of validate_text and the wrapper's reaction
ValidateAttempt ==
    /\ stack # <<>> /\ Top.fn = "validate_text"
    /\ Top.attempts < Top.tries + MaxExtra
    /\ now + BodyTime <= MaxTime
    /\ LET f == Invoked(Top, now)
           o == ValidateText(sel, expected, field, f.attempts)
       IN  /\ reads' = Append(reads, field)
           /\ message' = IF o.tag = "err" /\ o.val = AssertionError
                         THEN TextMessage(sel, expected, field)
                         ELSE message
           /\ Handle(f, o, now + BodyTime, 0)
    /\ UNCHANGED <<field, expected>>
    /\ UNCHANGED valRest

NextValidate == FieldChange \/ ValidateCall \/ ValidateAttempt

SpecValidate == InitValidate /\ [][NextValidate]_vars

----------------------------------------------------------------------------
(* The polling waits *)

MaxPolls == 6    \* the checks of one wait are counted up to this number

WaitOps == { "wait_present", "wait_not_present", "wait_source",
             "wait_not_source" }

\* what the check of wait op has to see for the wait to return: the
\* element found / the text in the page source, or not
Awaited(op) == op \in { "wait_present", "wait_source" }

\* `while True:` -- the wait returns at a check that saw what it waits
\* for; n, the number of checks made so far, plays no part.
WaitEnds_GivesUp(op, seen, n) == seen = Awaited(op) \/ n >= 3
WaitEnds(op, seen, n) == seen = Awaited(op) /\ n = n

InitWait ==
    /\ ActiveInit
    /\ ChainInit /\ SelInit /\ WinInit /\ ValInit
    /\ waitop = "none" /\ matched \in BOOLEAN /\ polls = 0
    /\ found = FALSE /\ waitpc = "idle"

waitRest == <<sessionVars, pageVars, chainVars, selVars, winVars, valVars>>

\* the page changes: the element, or the text in the source, comes or goes
PageChange ==
    /\ matched' = ~matched
    /\ UNCHANGED <<waitop, polls, found, waitpc>>
    /\ UNCHANGED retryVars /\ UNCHANGED waitRest

\* one of the waits is called
WaitCall ==
    /\ waitpc \in { "idle", "done" }
    /\ waitop' \in WaitOps
    /\ waitpc' = "check" /\ polls' = 0 /\ found' = FALSE
    /\ UNCHANGED matched
    /\ UNCHANGED retryVars /\ UNCHANGED waitRest

\* the check of the loop: __get_element(selector) or
\* `source in self._driver.page_source`, then return self or go to sleep
WaitCheck ==
    /\ waitpc = "check"
    /\ found' = matched
    /\ polls' = IF polls < MaxPolls THEN polls + 1 ELSE polls
    /\ waitpc' = IF WaitEnds(waitop, matched, polls') THEN "done"
                 ELSE "sleep"
    /\ UNCHANGED <<waitop, matched>>
    /\ UNCHANGED retryVars /\ UNCHANGED waitRest

\* time.sleep(0.25) is over: back to the head of the loop
WaitSleep ==
    /\ waitpc = "sleep"
    /\ waitpc' = "check"
    /\ UNCHANGED <<waitop, matched, polls, found>>
    /\ UNCHANGED retryVars /\ UNCHANGED waitRest

NextWait == PageChange \/ WaitCall \/ WaitCheck \/ WaitSleep

\* a wait that was called keeps running: its check and the end of its sleep
\* happen when they can
SpecWait ==
    InitWait /\ [][NextWait]_vars /\ WF_vars(WaitCheck) /\ WF_vars(WaitSleep)

----------------------------------------------------------------------------
(* The retry wrapper with a deadline, on a clock that advances *)

\* timeout >= 0: the call is not indefinite
LiveTimeouts == 0 .. MaxTimeout

\* every invocation of the operation takes time
LiveDurs == 1 .. (MaxDur + 1)

\* more invocations than a call with a deadline makes
LiveCap(f) == f.tries + f.timeout + MaxExtra

LiveCall ==
    /\ stack = <<>> /\ last = NoLast
    /\ \E ex \in ExceptSets, to \in LiveTimeouts, d \in Delays,
          tr \in Tries2s :
         stack' = <<NewFrame("op", FALSE, Retry(ex, to, d, tr), now)>>
    /\ UNCHANGED <<now, ret, last>>
    /\ UNCHANGED sessionVars /\ UNCHANGED pageVars
    /\ UNCHANGED extVars

\* one invocation of the operation and the wrapper's reaction to it
LiveAttempt ==
    /\ stack # <<>> /\ Top.fn = "op"
    /\ Top.attempts < LiveCap(Top)
    /\ \E r \in OpResults, dur \in LiveDurs, jitter \in Jitters :
         LET f == Invoked(Top, now)
             o == IF r = "ok" THEN Ok("value", f.attempts)
                              ELSE Err(r, f.attempts)
         IN  Handle(f, o, now + dur, jitter)
    /\ UNCHANGED sessionVars /\ UNCHANGED pageVars
    /\ UNCHANGED extVars

NextRetryLive == LiveCall \/ LiveAttempt

\* the wrapper, once called, keeps running
SpecRetryLive ==
    InitRetry /\ [][NextRetryLive]_vars /\ WF_vars(LiveAttempt)

----------------------------------------------------------------------------
(* Properties of the session, checked under Spec *)

\* C5: once the session has launched a driver process, it is terminated on
\* every path out of the with statement, an error during the initial
\* navigation in __enter__ included: no launched driver runs after the scope
\* has been left.
C5_DriverTerminatedOnExit == scope = "left" => running = {}

\* C6: the lifecycle is Unstarted -> Active -> Terminated without a way back:
\* no operation, entering the with statement again included, makes a
\* terminated session Active again (so that it launches one driver process).
C6_NoReactivation ==
    [][ Lifecycle = "Terminated" => Lifecycle' # "Active" ]_vars

\* C10: check(selector, t) directly followed by check(selector, t), both
\* returning, issue at most one click in total: exactly one when the element
\* started in the other state, none when it already was in state t.
C10_CheckIdempotent ==
    /\ pair.stage \in 1 .. 4 => clicks <= 1
    /\ pair.stage = 4 =>
         /\ clicks = IF pair.s0 # pair.mark THEN 1 ELSE 0
         /\ checked = pair.mark

\* both checks returned and the element started in the other state
C10_Witness ==
    /\ pair.stage = 4 /\ pair.s0 # pair.mark /\ clicks = 1 /\ pair.mark

\* check(selector, mark) has just returned to the with body
CheckReturned == stack = <<>> /\ ret.tag = "ok" /\ last.f.fn = "check"

\* C16: when check(selector) returns the checkbox is selected and when
\* uncheck(selector), which is check(selector, False), returns it is not,
\* whatever its state was before the call.
C16_CheckPostcondition == CheckReturned => checked = last.f.mark

\* uncheck returned after clicking a checkbox that was selected
C16_Witness ==
    /\ CheckReturned /\ ~last.f.mark /\ ~checked
    /\ clicks = 1 /\ pair.stage = 1 /\ pair.s0

----------------------------------------------------------------------------
(* Properties of the retry wrapper, checked under SpecRetry *)

\* the calls in progress and the one that finished last
Frames ==
    { stack[i] : i \in 1 .. Len(stack) } \cup
    (IF last = NoLast THEN {} ELSE {last.f})

Finished == last # NoLast /\ last.f.fn = "op"

\* every invocation made by call f failed with an error the wrapper catches
AllRetryable(f) ==
    /\ f.kinds # {}
    /\ \A k \in f.kinds : k # "ok" /\ Caught(k, f.exceptions)

\* every invocation made by call f failed with an error the wrapper lets pass
NoneRetryable(f) ==
    /\ f.kinds # {}
    /\ \A k \in f.kinds : k # "ok" /\ ~Caught(k, f.exceptions)

\* C1: with timeout >= 0 and tries = m, an operation that fails with a
\* retryable error on every invocation has been invoked at least m times when
\* the wrapper gives up, whatever the clock did.
C1_AtLeastTriesAttempts ==
    (Finished /\ ~last.f.indefinite /\ AllRetryable(last.f))
        => last.f.attempts >= last.f.tries

\* a call that gave up at once on the clock (timeout 0) after exactly tries
\* invocations
C1_Witness ==
    /\ Finished /\ AllRetryable(last.f)
    /\ last.f.timeout = 0 /\ last.f.tries = 3 /\ last.f.attempts = 3

\* C2: an invocation that raises an error outside the retryable set ends the
\* call at once with that error; an operation that only raises such errors is
\* invoked exactly once.
C2_NonRetryableOnce ==
    /\ \A i \in 1 .. Len(stack) :
         (stack[i].fn = "op" /\ stack[i].attempts > 0) =>
             /\ stack[i].out.tag = "err"
             /\ Caught(stack[i].out.val, stack[i].exceptions)
    /\ (Finished /\ NoneRetryable(last.f)) =>
             /\ last.f.attempts = 1
             /\ last.out = Err(last.f.out.val, 1)
             /\ ret = last.out

\* a TypeError leaves a wrapper that had time and tries left
C2_Witness ==
    /\ Finished /\ last.f.kinds = {TypeError}
    /\ last.f.timeout = MaxTimeout /\ last.f.tries >= 3 /\ last.f.delay > 0
    /\ last.f.attempts = 1 /\ now <= last.f.end_time

\* C3: what a call of the wrapper yields is the outcome of its last
\* invocation of the operation, result or error, unchanged; no error of the
\* wrapper's own making appears.
C3_LastOutcomeSurfaces ==
    Finished =>
        /\ last.out = last.f.out
        /\ last.out.id = last.f.attempts
        /\ ret = last.out
        /\ last.out.tag \in {"ok", "err"}
        /\ last.out.val \in OpResults \cup {"value"}

\* the final unconditional attempt failed after the schedule was exhausted
C3_Witness ==
    /\ Finished /\ last.f.pc = "final" /\ last.f.attempts >= 3
    /\ last.out = Err(NoSuchElementException, last.f.attempts)

\* C4: after a retryable failure the wrapper loops while now <= deadline or
\* the remaining counter is positive, decrementing the counter once per
\* attempt while it is positive; once that is false it makes exactly one more
\* attempt and yields that attempt's outcome.
C4_Step ==
    (stack # <<>> /\ Top.fn = "op" /\ stack' # stack) =>
        LET f == Top IN
        IF f.pc = "final"
        THEN /\ stack' = <<>>
             /\ last'.f.attempts = f.attempts + 1
             /\ ret' = last'.f.out
             /\ ret'.id = f.attempts + 1
        ELSE IF stack' = <<>>
        THEN ret'.tag = "ok" \/ ~Caught(ret'.val, f.exceptions)
        ELSE LET g == stack'[1]
                 cont == \/ f.indefinite
                         \/ now' <= f.end_time
                         \/ f.min_tries > 0
             IN  /\ g.attempts = f.attempts + 1
                 /\ g.out.tag = "err" /\ Caught(g.out.val, f.exceptions)
                 /\ g.pc = IF cont THEN "try" ELSE "final"
                 /\ g.min_tries = IF cont /\ f.min_tries > 0
                                  THEN f.min_tries - 1 ELSE f.min_tries

C4_LoopCondition == [][C4_Step]_vars

\* the counter ran down to 0 before the deadline, the loop went on until the
\* deadline passed, and the one final attempt was made
C4_Witness ==
    /\ Finished /\ last.f.pc = "final" /\ last.f.tries = 3
    /\ last.f.min_tries = 0 /\ last.f.attempts > 3 /\ last.f.timeout > 0

\* C7: with timeout < 0 the wrapper never reaches the final unconditional
\* attempt; a call ends only on success or on a non-retryable error.
C7_IndefiniteNeverGivesUp ==
    \A f \in Frames :
        (f.fn = "op" /\ f.indefinite) =>
            /\ f.pc # "final"
            /\ (last # NoLast /\ f = last.f) =>
                   \/ last.out.tag = "ok"
                   \/ ~Caught(last.out.val, f.exceptions)

\* an indefinite call still looping after more failures than tries, with
\* the clock past the time it started
C7_Witness ==
    /\ stack # <<>> /\ Top.fn = "op" /\ Top.indefinite
    /\ Top.tries >= 1 /\ Top.attempts >= Top.tries + 2
    /\ now > Top.end_time /\ Top.min_tries = 0

\* C8 as claimed: at least tries invocations start after the deadline.
C8_TriesAfterDeadline ==
    (Finished /\ ~last.f.indefinite /\ AllRetryable(last.f))
        => last.f.late >= last.f.tries

\* C8 as amended: tries counts all invocations, those before the deadline
\* included; at least tries are made in total and at least one of them, the
\* final unconditional attempt, starts after the deadline.
C8_OneAfterDeadline ==
    (Finished /\ ~last.f.indefinite /\ AllRetryable(last.f))
        => /\ last.f.late >= 1
           /\ last.f.started > last.f.end_time
           /\ last.f.attempts >= last.f.tries

\* a call that used up its tries before the deadline and made only the final
\* attempt after it
C8_Witness ==
    /\ Finished /\ AllRetryable(last.f) /\ last.f.timeout > 0
    /\ last.f.tries >= 3 /\ last.f.late = 1
    /\ last.f.attempts >= last.f.tries

\* C9: with delay d > 0 consecutive invocations inside one call start at
\* least d apart, the final unconditional attempt included.
C9_DelayBetweenAttempts ==
    \A f \in Frames :
        (f.fn = "op" /\ f.delay > 0 /\ f.attempts >= 2) =>
            /\ f.prev >= 0
            /\ f.started - f.prev >= f.delay

\* the final attempt started exactly d after the last loop attempt
C9_Witness ==
    /\ Finished /\ last.f.pc = "final" /\ last.f.delay > 0
    /\ last.f.attempts >= 2 /\ last.f.started - last.f.prev = last.f.delay

----------------------------------------------------------------------------
(* Properties of the methods' return values, checked under SpecChain *)

\* C11: every mutating or chaining method (get, text when setting, click,
\* check, uncheck, select_text / select_value when setting, alert, the waits,
\* window and frame switching and closing, every validate_* that passes)
\* returns the session itself, so another call can follow it in a chain.
C11_ChainingReturnsSelf ==
    (Len(chain) = 1 /\ chain[1] \in Chaining) => receiver = "self"

----------------------------------------------------------------------------
(* Properties of selectors and element resolution, checked under SpecSelect *)

\* the selector is malformed or names a kind no lookup exists for
BadSelector ==
    \/ sel.type # "str" /\ (sel.type # "tuple" \/ Len(sel.items) < 2)
    \/ sel.type = "tuple" /\ Len(sel.items) >= 2
         /\ Lower(sel.items[1]) \notin SupportedKinds

\* C12: a malformed selector or an unsupported selector kind given to a
\* retry-wrapped operation is never retried: whatever the operation's
\* retryable set, the error propagates out of the first attempt (no call is
\* still active after an attempt, the finished call made exactly one
\* attempt and raised a configuration error) and the driver is not queried
\* a second time.
C12_ConfigErrorsNotRetried ==
    BadSelector =>
      /\ stack # <<>> => Top.attempts = 0
      /\ queries <= 1
      /\ last # NoLast =>
           /\ last.f.attempts = 1
           /\ last.out.tag = "err"
           /\ last.out.val \in ConfigErrors

\* click, whose retryable set holds WebDriverException, was given a
\* selector of an unsupported kind and raised NotImplementedError
C12_Witness ==
    /\ BadSelector
    /\ last # NoLast /\ last.f.fn = "click"
    /\ last.out.val = NotImplementedError

\* the selector is well formed and of a supported kind
GoodSelector == ~BadSelector

\* an undecorated call has just answered for the current document
Answered(op) == stack = <<>> /\ last = NoLast /\ answer.op = op

\* the positions of the document's matching elements
Matching == { i \in 1 .. Len(doc) : doc[i] }

\* C15: for a supported selector kind, resolution of all matches returns
\* exactly the matching elements in document order, an empty sequence
\* included (is_present is then false and count_present 0, neither
\* raises); resolution of one element returns the first match in document
\* order, and raises NoSuchElementException when nothing matches.
C15_Resolution ==
    GoodSelector =>
      /\ Answered("get_element") /\ answer.flag =>
           /\ answer.tag = "ok"
           /\ { answer.elems[j] : j \in 1 .. Len(answer.elems) } = Matching
           /\ \A j, k \in 1 .. Len(answer.elems) :
                j < k => answer.elems[j] < answer.elems[k]
      /\ Answered("get_element") /\ ~answer.flag =>
           IF Matching = {}
           THEN answer.tag = "err" /\ answer.kind = NoSuchElementException
           ELSE /\ answer.tag = "ok"
                /\ Len(answer.elems) = 1
                /\ answer.elems[1] \in Matching
                /\ \A i \in Matching : answer.elems[1] <= i
      /\ Answered("is_present") =>
           answer.tag = "ok" /\ (answer.flag <=> Matching # {})
      /\ Answered("count_present") =>
           answer.tag = "ok" /\ answer.num = Cardinality(Matching)

\* one element was asked for where two match: the first is returned
C15_Witness ==
    /\ GoodSelector
    /\ Answered("get_element") /\ ~answer.flag
    /\ Cardinality(Matching) = 2
    /\ answer.elems = <<1>>

\* C17: clean_selector turns a string s into ("css", s) and a two-element
\* tuple (k, v) into (lowercase(k), v), and raises TypeError for every other
\* input.
C17_Normalization ==
    Answered("clean_selector") =>
      IF sel.type = "str"
      THEN answer.tag = "ok" /\ answer.by = "css"
           /\ answer.value = sel.items[1]
      ELSE IF sel.type = "tuple" /\ Len(sel.items) = 2
      THEN answer.tag = "ok" /\ answer.by = Lower(sel.items[1])
           /\ answer.value = sel.items[2]
      ELSE answer.tag = "err" /\ answer.kind = TypeError

----------------------------------------------------------------------------
(* Properties of window switching and closing, checked under SpecWindows *)

\* text occurs in s, character for character
Contains(text, s) ==
    \E i \in 0 .. (Len(s) - Len(text)) :
        \A j \in 1 .. Len(text) : s[i + j] = text[j]

\* the call of switch_to_window has ended
Switched == stack = <<>> /\ last.f.fn = "switch_to_window_regex"

AllHandles == Handles(windows, Len(windows))

Closed ==
    /\ stack = <<>>
    /\ last.f.fn \in { "close_window", "close_window_regex" }
    /\ last.out.tag = "ok"

\* C18: after close_window(text) or close_window() closed a window, the
\* driver's context is the remaining window whenever exactly one window is
\* still open.
C18_SoleWindowCurrent ==
    Closed /\ Len(windows) = 1 => current = windows[1].h

\* close_window(text) closed the window the script was not in
C18_Witness ==
    /\ Closed /\ last.f.fn = "close_window_regex"
    /\ Len(windows) = 1 /\ current = windows[1].h
    /\ visited = <<1, 2>>

\* a call of switch_to_window whose latest attempt found no match: it is
\* about to try again, or it has raised
SwitchFailed ==
    \/ /\ stack # <<>> /\ Top.fn = "switch_to_window_regex"
       /\ Top.attempts >= 1
    \/ Switched /\ last.out.tag = "err"

\* an attempt of switch_to_window that finds no match
FailedSwitchStep ==
    /\ stack # <<>> /\ Top.fn = "switch_to_window_regex"
    /\ \/ /\ stack' # <<>>
          /\ stack'[Len(stack')].attempts = Top.attempts + 1
       \/ stack' = <<>> /\ last'.out.tag = "err"

\* C21: a switch that finds no match does not put the context back: after
\* each failed attempt of switch_to_window_regex, the one whose
\* NoSuchWindowException propagates included, the driver's context is the
\* last handle the attempt enumerated, whichever window was current before.
C21_ContextLeftOnLastHandle ==
    /\ [](SwitchFailed =>
            visited # <<>> /\ current = visited[Len(visited)])
    /\ [](Switched /\ last.out.tag = "err" =>
            visited = AllHandles /\ current = windows[Len(windows)].h)
    /\ [][ FailedSwitchStep =>
             /\ visited' = AllHandles
             /\ current' = windows[Len(windows)].h ]_vars

\* the switch raised with two windows open: the context is on the second
C21_Witness ==
    /\ Switched /\ last.out.tag = "err"
    /\ last.out.val = NoSuchWindowException
    /\ Len(windows) = 2 /\ visited = <<1, 2>> /\ current = 2

----------------------------------------------------------------------------
(* Properties of validate_text, checked under SpecValidate *)

\* the call of validate_text has ended
Validated == stack = <<>> /\ last.f.fn = "validate_text"

\* C14: validate_text returns without error exactly when an attempt reads
\* the expected text, whatever earlier attempts read (another text or no
\* element); it gives up only when its schedule is exhausted (at least the
\* minimum number of attempts was made and the last one started after the
\* 2 s deadline); and when the last attempt read another text it raises
\* that attempt's AssertionError, whose message holds the selector, the
\* expected text and the text that attempt read.
C14_ValidateText ==
    Validated =>
      /\ Len(reads) = last.f.attempts
      /\ \A i \in 1 .. Len(reads) - 1 : reads[i] # expected
      /\ last.out.tag = "ok" <=> reads[Len(reads)] = expected
      /\ last.out.tag = "err" =>
           /\ Len(reads) >= DefaultTries
           /\ last.f.started > last.f.end_time
      /\ reads[Len(reads)] \in ElementTexts \ {expected} =>
           /\ last.out = Err(AssertionError, Len(reads))
           /\ message = [by |-> "css", value |-> "#checkbox",
                         expected |-> expected,
                         actual |-> reads[Len(reads)]]

\* the expected text showed up on the third attempt, after an attempt that
\* read another text and one that found no element
C14_Witness ==
    /\ Validated /\ last.out.tag = "ok"
    /\ Len(reads) = 3
    /\ reads[1] \in ElementTexts /\ reads[2] = "absent"

----------------------------------------------------------------------------
(* Properties of the polling waits, checked under SpecWait *)

\* a wait is polling
Waiting(op) == waitop = op /\ waitpc \in { "check", "sleep" }

\* once what wait op waits for is there for good, a running wait op returns
WaitReturns(op) ==
    <>[](matched = Awaited(op)) => [](Waiting(op) => <>(waitpc = "done"))

\* C19: the polling waits have no timeout.  A wait has returned only if
\* its last check saw what it waits for (wait_present a matching element,
\* wait_not_present none, wait_source the text in the page source,
\* wait_not_source its absence), and it returns only at such a check; after
\* every other check it sleeps and then checks again, however many checks
\* it has made; and when what it waits for eventually is there and stays,
\* it eventually returns.
C19_PollingWaits ==
    /\ [](waitpc = "done" => found = Awaited(waitop))
    /\ [][ waitpc # "done" /\ waitpc' = "done" =>
             waitpc = "check" /\ matched = Awaited(waitop) ]_vars
    /\ [][ waitpc = "check" /\ matched # Awaited(waitop) =>
             waitpc' \in { "check", "sleep" } ]_vars
    /\ [](waitpc = "sleep" => <>(waitpc = "check"))
    /\ WaitReturns("wait_present") /\ WaitReturns("wait_not_present")
    /\ WaitReturns("wait_source") /\ WaitReturns("wait_not_source")

\* wait_present returned at a check that found the element, after more
\* checks than the counter can tell apart found none
C19_Witness ==
    /\ waitop = "wait_present" /\ waitpc = "done"
    /\ found /\ polls = MaxPolls

----------------------------------------------------------------------------
(* Termination of the retry wrapper, checked under SpecRetryLive *)

\* the larger of two numbers
Max(a, b) == IF a >= b THEN a ELSE b

\* C20: with timeout >= 0 and a clock that advances across every attempt,
\* every call of the wrapper ends (returns or raises), whatever the
\* operation does, an operation that fails with a retryable error on every
\* invocation included: a call that is still running has invoked the
\* operation fewer than max(tries, timeout + 2) times, and every running
\* call eventually ends.
C20_Terminates ==
    /\ [](stack # <<>> =>
            Top.attempts < Max(Top.tries, Top.timeout + 2))
    /\ (stack # <<>>) ~> (stack = <<>>)

\* a call whose operation failed with a retryable error on each of its
\* invocations has raised the last of them, after the deadline passed
C20_Witness ==
    /\ Finished /\ AllRetryable(last.f)
    /\ last.out.tag = "err"
    /\ last.f.timeout = MaxTimeout
    /\ last.f.attempts = MaxTimeout + 2

====
